---------------------------- MODULE Spec2Model ----------------------------
(***************************************************************************)
(* Parser combinators, lexical layer, grammar and AST equality of          *)
(* src/Part-1/compiler.ts.                                                 *)
(*                                                                         *)
(* A JavaScript string is a sequence of one-character strings; a JS index  *)
(* i (0-based) addresses element i + 1 of the sequence.                    *)
(***************************************************************************)
EXTENDS Integers, Sequences, FiniteSets, TLC

(***************************************************************************)
(* Character classes used by the regular expressions of the lexical layer. *)
(***************************************************************************)
LowerCase ==
  {"a", "b", "c", "d", "e", "f", "g", "h", "i", "j", "k", "l", "m",
   "n", "o", "p", "q", "r", "s", "t", "u", "v", "w", "x", "y", "z"}

UpperCase ==
  {"A", "B", "C", "D", "E", "F", "G", "H", "I", "J", "K", "L", "M",
   "N", "O", "P", "Q", "R", "S", "T", "U", "V", "W", "X", "Y", "Z"}

Digits == {"0", "1", "2", "3", "4", "5", "6", "7", "8", "9"}

\* [a-zA-Z_]
IdStart == LowerCase \cup UpperCase \cup {"_"}

\* [a-zA-Z0-9_]  (also the \w class that \b is defined by)
WordChars == IdStart \cup Digits

\* [ \n\t\r]
SpaceChars == {" ", "\n", "\t", "\r"}

\* what '.' does not match without the s flag (the line terminators of the
\* alphabet)
LineTerminators == {"\n", "\r"}

\* s.slice(from, to) with JS indices
Slice(s, from, to) == SubSeq(s, from + 1, to)

\* the JS index of the first position >= i whose character is not in cls
RECURSIVE RunEnd(_, _, _)
RunEnd(s, i, cls) ==
  IF i < Len(s) /\ s[i + 1] \in cls THEN RunEnd(s, i + 1, cls) ELSE i

\* does the literal w occur in s at JS index i
HasLit(s, i, w) ==
  /\ i + Len(w) <= Len(s)
  /\ \A k \in 1..Len(w) : s[i + k] = w[k]

\* \b at JS index j: exactly one of the neighbours is a word character
WordBoundary(s, j) ==
  LET before == j >= 1 /\ j <= Len(s) /\ s[j] \in WordChars
      after  == j < Len(s) /\ s[j + 1] \in WordChars
  IN  before # after

(***************************************************************************)
(* The regular expressions of the program.  Every one carries the y        *)
(* (sticky) flag and none the g flag; the block comment also carries s.    *)
(***************************************************************************)
Lit(w)     == [t |-> "lit", w |-> w, wb |-> FALSE]
Keyword(w) == [t |-> "lit", w |-> w, wb |-> TRUE]

RegExps ==
  {"whitespace", "lineComment", "blockComment", "FUNCTION", "IF", "WHILE",
   "ELSE", "RETURN", "VAR", "COMMA", "SEMICOLON", "LEFT_PAREN",
   "RIGHT_PAREN", "LEFT_BRACE", "RIGHT_BRACE", "NUMBER", "ID", "NOT",
   "EQUAL", "NOT_EQUAL", "PLUS", "MINUS", "STAR", "SLASH",
   "ASSIGN", "let", "bye", "hai"}

\* the pattern of each regular expression object of the program
PatternOf(re) ==
  CASE re = "whitespace" -> [t |-> "plus", cls |-> SpaceChars]
    [] re = "lineComment" -> [t |-> "lineComment"]
    [] re = "blockComment" -> [t |-> "blockComment"]
    [] re = "FUNCTION" -> Keyword(<<"f", "u", "n", "c", "t", "i", "o", "n">>)
    [] re = "IF" -> Keyword(<<"i", "f">>)
    [] re = "WHILE" -> Keyword(<<"w", "h", "i", "l", "e">>)
    [] re = "ELSE" -> Keyword(<<"e", "l", "s", "e">>)
    [] re = "RETURN" -> Keyword(<<"r", "e", "t", "u", "r", "n">>)
    [] re = "VAR" -> Keyword(<<"v", "a", "r">>)
    [] re = "COMMA" -> Lit(<<",">>)
    [] re = "SEMICOLON" -> Lit(<<";">>)
    [] re = "LEFT_PAREN" -> Lit(<<"(">>)
    [] re = "RIGHT_PAREN" -> Lit(<<")">>)
    [] re = "LEFT_BRACE" -> Lit(<<"{">>)
    [] re = "RIGHT_BRACE" -> Lit(<<"}">>)
    [] re = "NUMBER" -> [t |-> "plus", cls |-> Digits]
    [] re = "ID" -> [t |-> "id"]
    [] re = "NOT" -> Lit(<<"!">>)
    [] re = "EQUAL" -> Lit(<<"=", "=">>)
    [] re = "NOT_EQUAL" -> Lit(<<"!", "=">>)
    [] re = "PLUS" -> Lit(<<"+">>)
    [] re = "MINUS" -> Lit(<<"-">>)
    [] re = "STAR" -> Lit(<<"*">>)
    [] re = "SLASH" -> Lit(<<"/">>)
    [] re = "ASSIGN" -> Lit(<<"=">>)
    [] re = "let" -> Lit(<<"l", "e", "t">>)
    [] re = "bye" -> Lit(<<"b", "y", "e">>)
    [] re = "hai" -> Lit(<<"h", "a", "i">>)


\* the JS indices j >= from at which "*/" occurs in s
StarSlashAt(s, from) ==
  {j \in from..(Len(s) - 2) : s[j + 1] = "*" /\ s[j + 2] = "/"}

Max(S) == CHOOSE m \in S : \A n \in S : n <= m

\* /[/][*].*[*][/]/sy : with the s flag '.' matches every character, and
\* the greedy .* gives back as little as possible, so the match ends at the
\* last "*/" of the string.
BlockCommentEnd(s, i) ==
  IF HasLit(s, i, <<"/", "*">>) /\ StarSlashAt(s, i + 2) # {}
  THEN Max(StarSlashAt(s, i + 2)) + 2
  ELSE -1

\* /[/][/].*/y : '.' stops at a line terminator
LineCommentEnd(s, i) ==
  IF HasLit(s, i, <<"/", "/">>)
  THEN RunEnd(s, i + 2, {s[k] : k \in 1..Len(s)} \ LineTerminators)
  ELSE -1

\* MatchEnd with [ \n\t\r]* and [0-9]* in place of [ \n\t\r]+ and [0-9]+
MatchEndOrEmpty(pat, s, i) ==
  CASE pat.t = "lit" ->
         IF HasLit(s, i, pat.w) /\ (pat.wb => WordBoundary(s, i + Len(pat.w)))
         THEN i + Len(pat.w) ELSE -1
    [] pat.t = "plus" -> RunEnd(s, i, pat.cls)
    [] pat.t = "id" ->
         IF i < Len(s) /\ s[i + 1] \in IdStart
         THEN RunEnd(s, i + 1, WordChars) ELSE -1
    [] pat.t = "lineComment" -> LineCommentEnd(s, i)
    [] pat.t = "blockComment" -> BlockCommentEnd(s, i)

\* The end index of the anchored match of pattern pat at JS index i, or -1
\* when the pattern does not match there.
MatchEnd(pat, s, i) ==
  CASE pat.t = "lit" ->
         IF HasLit(s, i, pat.w) /\ (pat.wb => WordBoundary(s, i + Len(pat.w)))
         THEN i + Len(pat.w) ELSE -1
    [] pat.t = "plus" ->
         IF RunEnd(s, i, pat.cls) > i THEN RunEnd(s, i, pat.cls) ELSE -1
    [] pat.t = "id" ->
         IF i < Len(s) /\ s[i + 1] \in IdStart
         THEN RunEnd(s, i + 1, WordChars) ELSE -1
    [] pat.t = "lineComment" -> LineCommentEnd(s, i)
    [] pat.t = "blockComment" -> BlockCommentEnd(s, i)

(***************************************************************************)
(* RegExp.prototype.exec for a sticky, non-global regular expression, as   *)
(* String.prototype.match runs it: the match is attempted at lastIndex     *)
(* only; a failure resets lastIndex to 0, a success moves it to the end of *)
(* the match.                                                              *)
(***************************************************************************)
StickyExec(re, s, lastIndex) ==
  LET e == IF lastIndex > Len(s) THEN -1 ELSE MatchEnd(PatternOf(re), s, lastIndex)
  IN  IF e < 0
      THEN [found |-> FALSE, from |-> lastIndex, to |-> lastIndex, lastIndex |-> 0]
      ELSE [found |-> TRUE, from |-> lastIndex, to |-> e, lastIndex |-> e]

(***************************************************************************)
(* Values.  null and the AST classes are records, so that every value a    *)
(* callback may test is comparable with null.                              *)
(***************************************************************************)
NullV == [k |-> "null"]

\* a class used as a value (the operator tokens yield the class to build)
ClassV(name) == [k |-> "class", name |-> name]

Number(value) == [k |-> "Number", value |-> value]
Id(value) == [k |-> "Id", value |-> value]
Not(term) == [k |-> "Not", term |-> term]
Equal(left, right) == [k |-> "Equal", left |-> left, right |-> right]
NotEqual(left, right) == [k |-> "NotEqual", left |-> left, right |-> right]
Add(left, right) == [k |-> "Add", left |-> left, right |-> right]
Subtract(left, right) == [k |-> "Subtract", left |-> left, right |-> right]
Multiply(left, right) == [k |-> "Multiply", left |-> left, right |-> right]
Divide(left, right) == [k |-> "Divide", left |-> left, right |-> right]
Call(callee, args) == [k |-> "Call", callee |-> callee, args |-> args]
Return(term) == [k |-> "Return", term |-> term]
Block(statements) == [k |-> "Block", statements |-> statements]
If(conditional, consequence, alternative) ==
  [k |-> "If", conditional |-> conditional, consequence |-> consequence,
   alternative |-> alternative]
Function(name, parameters, body) ==
  [k |-> "Function", name |-> name, parameters |-> parameters, body |-> body]
Var(name, value) == [k |-> "Var", name |-> name, value |-> value]
Assign(name, value) == [k |-> "Assign", name |-> name, value |-> value]
While(conditional, body) ==
  [k |-> "While", conditional |-> conditional, body |-> body]

(***************************************************************************)
(* equals, by the class of this; "other instanceof C" is other.k = "C"     *)
(***************************************************************************)
RECURSIVE Equals(_, _)

\* this.args.length === other.args.length &&
\*   this.args.every((arg, i) => arg.equals(other.args[i]))
EveryEquals(these, others) ==
  /\ Len(these) = Len(others)
  /\ \A i \in 1..Len(these) : Equals(these[i], others[i])

\* BinaryEquals that forgets the right operand
BinaryEqualsLeftOnly(this, other) == Equals(this.left, other.left)

\* left.equals(other.left) && right.equals(other.right)
BinaryEquals(this, other) ==
  /\ Equals(this.left, other.left)
  /\ Equals(this.right, other.right)

Equals(this, other) ==
  CASE this.k = "Number" -> other.k = "Number" /\ this.value = other.value
    [] this.k = "Id" -> other.k = "Id" /\ this.value = other.value
    [] this.k = "Not" -> other.k = "Not" /\ Equals(this.term, other.term)
    [] this.k = "Equal" -> other.k = "Equal" /\ BinaryEquals(this, other)
    [] this.k = "NotEqual" -> other.k = "NotEqual" /\ BinaryEquals(this, other)
    [] this.k = "Add" -> other.k = "Add" /\ BinaryEquals(this, other)
    [] this.k = "Subtract" -> other.k = "Subtract" /\ BinaryEquals(this, other)
    [] this.k = "Multiply" -> other.k = "Multiply" /\ BinaryEquals(this, other)
    [] this.k = "Divide" -> other.k = "Divide" /\ BinaryEquals(this, other)
    [] this.k = "Call" ->
         /\ other.k = "Call"
         /\ this.callee = other.callee
         /\ EveryEquals(this.args, other.args)
    [] this.k = "Return" -> other.k = "Return" /\ Equals(this.term, other.term)
    [] this.k = "Block" ->
         other.k = "Block" /\ EveryEquals(this.statements, other.statements)
    [] this.k = "If" ->
         /\ other.k = "If"
         /\ Equals(this.conditional, other.conditional)
         /\ Equals(this.consequence, other.consequence)
         /\ Equals(this.alternative, other.alternative)
    [] this.k = "Function" ->
         /\ other.k = "Function"
         /\ this.name = other.name
         /\ Len(this.parameters) = Len(other.parameters)
         /\ \A i \in 1..Len(this.parameters) :
              this.parameters[i] = other.parameters[i]
         /\ Equals(this.body, other.body)
    [] this.k = "Var" ->
         /\ other.k = "Var"
         /\ this.name = other.name
         /\ Equals(this.value, other.value)
    [] this.k = "Assign" ->
         /\ other.k = "Assign"
         /\ this.name = other.name
         /\ Equals(this.value, other.value)
    [] this.k = "While" ->
         /\ other.k = "While"
         /\ Equals(this.conditional, other.conditional)
         /\ Equals(this.body, other.body)

\* new operator(left, term) for the class an operator token yielded
New(class, left, right) == [k |-> class.name, left |-> left, right |-> right]

DigitValue(c) ==
  CASE c = "0" -> 0 [] c = "1" -> 1 [] c = "2" -> 2 [] c = "3" -> 3
    [] c = "4" -> 4 [] c = "5" -> 5 [] c = "6" -> 6 [] c = "7" -> 7
    [] c = "8" -> 8 [] c = "9" -> 9

\* parseInt(digits, 10) on a non-empty string of decimal digits
RECURSIVE ParseInt(_)
ParseInt(digits) ==
  IF Len(digits) = 0 THEN 0
  ELSE 10 * ParseInt(SubSeq(digits, 1, Len(digits) - 1))
       + DigitValue(digits[Len(digits)])

(***************************************************************************)
(* Parsers.  A Parser object is the function its parse field holds; the    *)
(* closures the combinators build are records of what they captured.  The  *)
(* two objects whose parse field is assigned after construction            *)
(* (expression, statement) are referred to by name, and their parse field  *)
(* is part of the state (cells).                                           *)
(***************************************************************************)
regexp(re) == [k |-> "regexp", re |-> re]

constant(value) == [k |-> "constant", value |-> value]

error(message) == [k |-> "error", message |-> message]

or(this, parser) == [k |-> "or", this |-> this, parser |-> parser]

zeroOrMore(parser) == [k |-> "zeroOrMore", parser |-> parser]

\* callback names a closure of the source, env the variables it captured
bind(this, callback, env) ==
  [k |-> "bind", this |-> this, callback |-> callback, env |-> env]

and(this, parser) == bind(this, "and", <<parser>>)

map(this, callback, env) == bind(this, "map", <<callback, env>>)

maybe(parser) == or(parser, constant(NullV))

\* a reference to a Parser object whose parse field is read at call time
Cell(name) == [k |-> "cell", name |-> name]

Cells == {"expression", "statement"}

Undeclared == [k |-> "undeclared"]

(***************************************************************************)
(* Lexical layer                                                           *)
(***************************************************************************)
whitespace == regexp("whitespace")

comments == or(regexp("lineComment"), regexp("blockComment"))

ignored == zeroOrMore(or(whitespace, comments))

token(pattern) == bind(regexp(pattern), "token_value", <<>>)

FUNCTION == token("FUNCTION")
IF_ == token("IF")
WHILE == token("WHILE")
ELSE_ == token("ELSE")
RETURN == token("RETURN")
VAR == token("VAR")

COMMA == token("COMMA")
SEMICOLON == token("SEMICOLON")
LEFT_PAREN == token("LEFT_PAREN")
RIGHT_PAREN == token("RIGHT_PAREN")
LEFT_BRACE == token("LEFT_BRACE")
RIGHT_BRACE == token("RIGHT_BRACE")

NUMBER == map(token("NUMBER"), "NUMBER_digits", <<>>)

ID == token("ID")

id == map(ID, "id_x", <<>>)

NOT == map(token("NOT"), "class", <<"Not">>)
EQUAL == map(token("EQUAL"), "class", <<"Equal">>)
NOT_EQUAL == map(token("NOT_EQUAL"), "class", <<"NotEqual">>)
PLUS == map(token("PLUS"), "class", <<"Add">>)
MINUS == map(token("MINUS"), "class", <<"Subtract">>)
STAR == map(token("STAR"), "class", <<"Multiply">>)
SLASH == map(token("SLASH"), "class", <<"Divide">>)
ASSIGN == map(token("ASSIGN"), "class", <<"Assign">>)

(***************************************************************************)
(* Grammar                                                                 *)
(***************************************************************************)
expression == Cell("expression")

\* args <- (expression (COMMA expression)*)?
args == or(bind(expression, "args_arg", <<>>), constant(<<>>))

\* call <- ID LEFT_PAREN args RIGHT_PAREN
call == bind(ID, "call_callee", <<>>)

\* atom <- call / ID / NUMBER / LEFT_PAREN expression RIGHT_PAREN
atom ==
  or(or(or(call, id), NUMBER),
     bind(and(LEFT_PAREN, expression), "atom_e", <<>>))

\* unary <- NOT? atom
unary == bind(maybe(NOT), "unary_not", <<>>)

infix(operatorParser, termParser) ==
  bind(termParser, "infix_term", <<operatorParser, termParser>>)

\* product <- unary ((STAR / SLASH) unary)*
product == infix(or(STAR, SLASH), unary)

\* sum <- product ((PLUS / MINUS) product)*
sum == infix(or(PLUS, MINUS), product)

\* comparison <- sum ((EQUAL / NOT_EQUAL) sum)*
comparison == infix(or(EQUAL, NOT_EQUAL), sum)

statement == Cell("statement")

\* returnStatement <- RETURN expression SEMICOLON
returnStatement == bind(and(RETURN, expression), "return_term", <<>>)

\* expressionStatement <- expression SEMICOLON
expressionStatement == bind(expression, "expression_term", <<>>)

\* ifStatement <- IF LEFT_PAREN expression RIGHT_PAREN statement ELSE statement
ifStatement ==
  bind(and(and(IF_, LEFT_PAREN), expression), "if_conditional", <<>>)

\* whileStatement <- WHILE LEFT_PAREN expression RIGHT_PAREN statement
whileStatement ==
  bind(and(and(WHILE, LEFT_PAREN), expression), "while_conditional", <<>>)

\* varStatement <- VAR ID ASSIGN expression SEMICOLON
varStatement == bind(and(VAR, ID), "var_name", <<>>)

\* assignmentStatement <- ID ASSIGN expression SEMICOLON
assignmentStatement == bind(ID, "assignment_name", <<>>)

\* blockStatement <- LEFT_BRACE statement* RIGHT_BRACE
blockStatement ==
  bind(and(LEFT_BRACE, zeroOrMore(statement)), "block_statements", <<>>)

\* parameters <- (ID (COMMA ID)*)?
parameters == or(bind(ID, "parameters_param", <<>>), constant(<<>>))

\* functionStatement <-
\*   FUNCTION ID LEFT_PAREN parameters RIGHT_PAREN blockStatement
functionStatement == bind(and(FUNCTION, ID), "function_name", <<>>)

statementParser ==
  or(or(or(or(or(or(or(returnStatement,
                       functionStatement),
                    ifStatement),
                 whileStatement),
              varStatement),
           assignmentStatement),
        blockStatement),
     expressionStatement)

parser == map(and(ignored, zeroOrMore(statement)), "parser_statements", <<>>)

\* Reduce folding from the right: term o1 (t1 o2 (t2 ...))
RECURSIVE ReduceRight(_, _)
ReduceRight(operatorTerms, term) ==
  IF Len(operatorTerms) = 0 THEN term
  ELSE New(operatorTerms[1].operator, term,
           ReduceRight(Tail(operatorTerms), operatorTerms[1].term))

\* operatorTerms.reduce((left, {operator, term}) => new operator(left, term), term)
RECURSIVE Reduce(_, _)
Reduce(operatorTerms, term) ==
  IF Len(operatorTerms) = 0 THEN term
  ELSE LET last == operatorTerms[Len(operatorTerms)]
       IN  New(last.operator,
               Reduce(SubSeq(operatorTerms, 1, Len(operatorTerms) - 1), term),
               last.term)

\* the value a callback passed to map returns
MapCall(callback, env, value) ==
  CASE callback = "NUMBER_digits" -> Number(ParseInt(value))
    [] callback = "id_x" -> Id(value)
    [] callback = "class" -> ClassV(env[1])
    [] callback = "unary_term" -> IF env[1] # NullV THEN Not(value) ELSE value
    [] callback = "infix_reduce" -> Reduce(value, env[1])
    [] callback = "parser_statements" -> Block(value)

\* the parser a callback passed to bind returns
Apply(callback, env, value) ==
  CASE callback = "and" -> env[1]
    [] callback = "map" -> constant(MapCall(env[1], env[2], value))
    [] callback = "token_value" -> and(ignored, constant(value))
    [] callback = "args_arg" ->
         bind(zeroOrMore(and(COMMA, expression)), "args_args", <<value>>)
    [] callback = "args_args" -> constant(<<env[1]>> \o value)
    [] callback = "call_callee" ->
         and(LEFT_PAREN, bind(args, "call_args", <<value>>))
    [] callback = "call_args" ->
         and(RIGHT_PAREN, constant(Call(env[1], value)))
    [] callback = "atom_e" -> and(RIGHT_PAREN, constant(value))
    [] callback = "unary_not" -> map(atom, "unary_term", <<value>>)
    [] callback = "infix_term" ->
         map(zeroOrMore(bind(env[1], "infix_operator", <<env[2]>>)),
             "infix_reduce", <<value>>)
    [] callback = "infix_operator" -> bind(env[1], "infix_term2", <<value>>)
    [] callback = "infix_term2" ->
         constant([operator |-> env[1], term |-> value])
    [] callback = "return_term" -> and(SEMICOLON, constant(Return(value)))
    [] callback = "expression_term" -> and(SEMICOLON, constant(value))
    [] callback = "if_conditional" ->
         bind(and(RIGHT_PAREN, statement), "if_consequence", <<value>>)
    [] callback = "if_consequence" ->
         bind(and(ELSE_, statement), "if_alternative", <<env[1], value>>)
    [] callback = "if_alternative" -> constant(If(env[1], env[2], value))
    [] callback = "while_conditional" ->
         bind(and(RIGHT_PAREN, statement), "while_body", <<value>>)
    [] callback = "while_body" -> constant(While(env[1], value))
    [] callback = "var_name" ->
         bind(and(ASSIGN, expression), "var_value", <<value>>)
    [] callback = "var_value" ->
         and(SEMICOLON, constant(Var(env[1], value)))
    [] callback = "assignment_name" ->
         bind(and(ASSIGN, expression), "assignment_value", <<value>>)
    [] callback = "assignment_value" ->
         and(SEMICOLON, constant(Assign(env[1], value)))
    [] callback = "block_statements" ->
         and(RIGHT_BRACE, constant(Block(value)))
    [] callback = "parameters_param" ->
         bind(zeroOrMore(and(COMMA, ID)), "parameters_params", <<value>>)
    [] callback = "parameters_params" -> constant(<<env[1]>> \o value)
    [] callback = "function_name" ->
         bind(and(LEFT_PAREN, parameters), "function_parameters", <<value>>)
    [] callback = "function_parameters" ->
         bind(and(RIGHT_PAREN, blockStatement), "function_block",
              <<env[1], value>>)
    [] callback = "function_block" ->
         constant(Function(env[1], env[2], value))

(***************************************************************************)
(* Running a parser.  A result is                                          *)
(*   ok      a ParseResult (value, source.index)                           *)
(*   null    no match                                                      *)
(*   throw   an Error was thrown (value is its message)                    *)
(*   diverge the call never returns                                        *)
(* together with the lastIndex of every regular expression afterwards.     *)
(* cx carries the parse fields of the cells and the cell invocations that  *)
(* are on the call stack (a cell entered again at the same index, or a     *)
(* zeroOrMore item that succeeds without moving the index, repeats the     *)
(* same call for ever, since a Source is never modified).                  *)
(***************************************************************************)
\* Error(message)
Error(message) == [k |-> "Error", message |-> message]

Ok(value, index, li) == [kind |-> "ok", value |-> value, index |-> index, li |-> li]

Null(index, li) == [kind |-> "null", value |-> NullV, index |-> index, li |-> li]

Throw(message, index, li) ==
  [kind |-> "throw", value |-> message, index |-> index, li |-> li]

Diverge(index, li) ==
  [kind |-> "diverge", value |-> NullV, index |-> index, li |-> li]

\* SetLastIndex that leaves lastIndex as the last match left it
KeepLastIndex(index, old) == old

\* regexp.lastIndex = this.index
SetLastIndex(index, old) == index

\* Source.match: the Source itself (string, index) is only read
SourceMatch(s, index, re, li) ==
  LET x == StickyExec(re, s, SetLastIndex(index, li[re]))
      value == Slice(s, x.from, x.to)
  IN  IF x.found
      THEN Ok(value, index + Len(value), [li EXCEPT ![re] = x.lastIndex])
      ELSE Null(index, [li EXCEPT ![re] = x.lastIndex])

\* Deref reading the parse field the object had when the rule was built
DerefWhenBuilt(name, cells) == error(name \o " parser used before definition")

\* the parse field of the object a reference names, read when it is called
Deref(name, cells) == cells[name]

RECURSIVE Parse(_, _, _, _, _)

\* OrParse that runs both parsers before it chooses
OrParseBoth(this, alternative, s, i, li, cx) ==
  LET other == Parse(alternative, s, i, li, cx)
      result == Parse(this, s, i, other.li, cx)
  IN  IF result.kind = "null"
      THEN [other EXCEPT !.li = result.li]
      ELSE result

\* or: (source) => { let result = this.parse(source); ... }
OrParse(this, alternative, s, i, li, cx) ==
  LET result == Parse(this, s, i, li, cx)
  IN  IF result.kind = "null"
      THEN Parse(alternative, s, i, result.li, cx)
      ELSE result

\* bind: (source) => { let result = this.parse(source); ... }
BindParse(this, callback, env, s, i, li, cx) ==
  LET result == Parse(this, s, i, li, cx)
  IN  IF result.kind = "ok"
      THEN Parse(Apply(callback, env, result.value), s, result.index,
                 result.li, cx)
      ELSE result

\* zeroOrMore: while (item = parser.parse(source)) { ... }
RECURSIVE ZeroOrMoreParse(_, _, _, _, _, _)
ZeroOrMoreParse(inner, s, i, results, li, cx) ==
  LET item == Parse(inner, s, i, li, cx)
  IN  CASE item.kind = "ok" ->
             IF item.index = i
             THEN Diverge(i, item.li)
             ELSE ZeroOrMoreParse(inner, s, item.index,
                                  Append(results, item.value), item.li, cx)
        [] item.kind = "null" -> Ok(results, i, item.li)
        [] OTHER -> item

\* a call of the parse field of expression or statement
CellParse(name, s, i, li, cx) ==
  IF <<name, i>> \in cx.active
  THEN Diverge(i, li)
  ELSE Parse(Deref(name, cx.cells), s, i, li,
             [cx EXCEPT !.active = @ \cup {<<name, i>>}])

Parse(p, s, i, li, cx) ==
  CASE p.k = "regexp" -> SourceMatch(s, i, p.re, li)
    [] p.k = "constant" -> Ok(p.value, i, li)
    [] p.k = "error" -> Throw(Error(p.message), i, li)
    [] p.k = "or" -> OrParse(p.this, p.parser, s, i, li, cx)
    [] p.k = "bind" -> BindParse(p.this, p.callback, p.env, s, i, li, cx)
    [] p.k = "zeroOrMore" -> ZeroOrMoreParse(p.parser, s, i, <<>>, li, cx)
    [] p.k = "cell" -> CellParse(p.name, s, i, li, cx)

Context(cells) == [cells |-> cells, active |-> {}]

NothingAtAll == Error("Parse error: could not parse anything at all")

\* Error("Parse error at index " + index)
ErrorAtIndex(index) ==
  [k |-> "Error", message |-> "Parse error at index ", index |-> index]

\* ParseStringToCompletion without the comparison of index and length
ParseStringPrefix(p, string, li, cells) ==
  LET result == Parse(p, string, 0, li, Context(cells))
  IN  CASE result.kind = "null" -> Throw(NothingAtAll, 0, result.li)
        [] OTHER -> result

\* parseStringToCompletion: the value returned, or the Error thrown
ParseStringToCompletion(p, string, li, cells) ==
  LET result == Parse(p, string, 0, li, Context(cells))
  IN  CASE result.kind = "null" -> Throw(NothingAtAll, 0, result.li)
        [] result.kind = "ok" ->
             IF result.index # Len(string)
             THEN Throw(ErrorAtIndex(result.index), result.index, result.li)
             ELSE result
        [] OTHER -> result

(***************************************************************************)
(* Inputs                                                                  *)
(***************************************************************************)
\* the source text of the integration test (lines 458-467)
FactorialSource ==
  <<"\n", " ", " ", " ", " ", "f", "u", "n", "c", "t", "i", "o", "n", " ",
    "f", "a", "c", "t", "o", "r", "i", "a", "l", "(", "n", ")", " ", "{",
    "\n", " ", " ", " ", " ", " ", " ", "v", "a", "r", " ", "r", "e", "s",
    "u", "l", "t", " ", "=", " ", "1", ";", "\n", " ", " ", " ", " ", " ",
    " ", "w", "h", "i", "l", "e", " ", "(", "n", " ", "!", "=", " ", "1",
    ")", " ", "{", "\n", " ", " ", " ", " ", " ", " ", " ", " ", "r", "e",
    "s", "u", "l", "t", " ", "=", " ", "r", "e", "s", "u", "l", "t", " ",
    "*", " ", "n", ";", "\n", " ", " ", " ", " ", " ", " ", " ", " ", "n",
    " ", "=", " ", "n", " ", "-", " ", "1", ";", "\n", " ", " ", " ", " ",
    " ", " ", "}", "\n", " ", " ", " ", " ", " ", " ", "r", "e", "t", "u",
    "r", "n", " ", "r", "e", "s", "u", "l", "t", ";", "\n", " ", " ", " ",
    " ", "}", "\n", " ", " ">>

\* the tree the integration test expects (lines 469-478)
FactorialExpected ==
  Block(<<
    Function(<<"f", "a", "c", "t", "o", "r", "i", "a", "l">>, <<<<"n">>>>,
      Block(<<
        Var(<<"r", "e", "s", "u", "l", "t">>, Number(1)),
        While(NotEqual(Id(<<"n">>), Number(1)),
          Block(<<
            Assign(<<"r", "e", "s", "u", "l", "t">>,
                   Multiply(Id(<<"r", "e", "s", "u", "l", "t">>), Id(<<"n">>))),
            Assign(<<"n">>, Subtract(Id(<<"n">>), Number(1)))>>)),
        Return(Id(<<"r", "e", "s", "u", "l", "t">>))>>))>>)

\* a text whose validity is not known in advance
Text(string) == [text |-> string, expected |-> NullV]

\* a valid program together with the tree its statements denote
Valid(string, statements) == [text |-> string, expected |-> Block(statements)]

\* single statements, written without trivia
Statements ==
  {<<<<"x", "=", "1", ";">>,
     Assign(<<"x">>, Number(1))>>,
   <<<<"f", "(", "x", ",", "1", ")", ";">>,
     Call(<<"f">>, <<Id(<<"x">>), Number(1)>>)>>,
   <<<<"i", "f", "f", "y", ";">>,
     Id(<<"i", "f", "f", "y">>)>>,
   <<<<"i", "f", "(", "x", ")", "y", ";", "e", "l", "s", "e", "{", "}">>,
     If(Id(<<"x">>), Id(<<"y">>), Block(<<>>))>>,
   <<<<"v", "a", "r", " ", "v", "=", "!", "(", "1", ")", ";">>,
     Var(<<"v">>, Not(Number(1)))>>,
   <<<<"f", "u", "n", "c", "t", "i", "o", "n", " ", "g", "(", "a", ",", "b",   ")", "{", "r", "e", "t", "u", "r", "n", " ", "0", "0", "7", ";", "}">>,
     Function(<<"g">>, <<<<"a">>, <<"b">>>>, Block(<<Return(Number(7))>>))>>,
   <<<<"w", "h", "i", "l", "e", "(", "x", "=", "=", "1", ")", "x", "=", "x",   "/", "2", ";">>,
     While(Equal(Id(<<"x">>), Number(1)), Assign(<<"x">>, Divide(Id(<<"x">>), Number(2))))>>}

\* whitespace and comments that may surround a program
Trivia ==
  {<<>>, <<" ", "\n">>, <<"/", "/", "c", "\n">>, <<"/", "*", "c", "*", "/">>}

\* each statement alone, surrounded by trivia
SurroundedStatements ==
  {Valid(lead \o st[1] \o trail, <<st[2]>>) :
     lead \in Trivia, st \in Statements, trail \in Trivia}

InfixOperators ==
  {<<<<"=", "=">>, "Equal", 1>>, <<<<"!", "=">>, "NotEqual", 1>>,
   <<<<"+">>, "Add", 2>>, <<<<"-">>, "Subtract", 2>>,
   <<<<"*">>, "Multiply", 3>>, <<<<"/">>, "Divide", 3>>}

\* "8 o1 4 o2 2;" and the tree the four binding levels give it
Chain(o1, o2) ==
  Valid(<<"8", " ">> \o o1[1] \o <<" ", "4", " ">> \o o2[1] \o <<" ", "2", ";">>,
        <<IF o2[3] > o1[3]
          THEN New(ClassV(o1[2]), Number(8),
                   New(ClassV(o2[2]), Number(4), Number(2)))
          ELSE New(ClassV(o2[2]),
                   New(ClassV(o1[2]), Number(8), Number(4)), Number(2))>>)

Chains == {Chain(o1, o2) : o1 \in InfixOperators, o2 \in InfixOperators}

\* the pieces the short inputs are made of
Lexemes ==
  {<<"x">>, <<"i", "f">>, <<"1">>, <<"=">>, <<";">>, <<"(">>, <<")">>,
   <<" ">>, <<"@">>, <<"{">>}

MaxLexemes == 3

\* every concatenation of at most n lexemes
RECURSIVE Concats(_)
Concats(n) ==
  IF n = 0 THEN {<<>>}
  ELSE LET shorter == Concats(n - 1)
       IN  shorter \cup {x \o l : x \in shorter, l \in Lexemes}

Samples ==
  {Text(<<"@", "@", "@">>),
   Text(<<"x", " ", "=", " ", "1", ";", " ", ")">>),
   Text(<<"(", "(", "x", ")", ")", ";", "f", "(", "g", "(", ")", ",", "1", ")", ";", "{", "{", "}", "}">>),
   Valid(FactorialSource, FactorialExpected.statements)}

Programs ==
  Samples \cup SurroundedStatements \cup Chains
    \cup {Text(string) : string \in Concats(MaxLexemes)}

(***************************************************************************)
(* The program: the grammar's definition phase (lines 175-297), then one   *)
(* call of parser.parseStringToCompletion.  A caller that uses a cell      *)
(* during the definition phase ends the run with the Error it throws.      *)
(***************************************************************************)
VARIABLES
  pc,         \* the next top-level statement of the module
  cells,      \* the parse field of expression and of statement
  lastIndex,  \* the lastIndex of every regular expression object
  invoked,    \* the last call made
  outcome,    \* what it returned or threw
  first       \* what the first match of the pattern on the Source gave

vars == <<pc, cells, lastIndex, invoked, outcome, first>>

NoCall == [op |-> "none"]

NoOutcome == [kind |-> "none"]

Installed == [c \in Cells |-> IF c = "expression" THEN comparison ELSE statementParser]

\* the state at line 175, after the tests of lines 32-129 have run
Init ==
  /\ pc = "L175"
  /\ cells = [c \in Cells |-> Undeclared]
  /\ lastIndex = [re \in RegExps |->
                    CASE re = "let" -> 5 [] re = "hai" -> 3 [] OTHER -> 0]
  /\ invoked = NoCall
  /\ outcome = NoOutcome
  /\ first = NoOutcome

\* let expression = Parser.error("expression parser used before definition")
DeclareExpression ==
  /\ pc = "L175"
  /\ cells' = [cells EXCEPT !["expression"] =
                 error("expression parser used before definition")]
  /\ pc' = "L213"
  /\ UNCHANGED <<lastIndex, invoked, outcome, first>>

\* expression.parse = comparison.parse
InstallExpression ==
  /\ pc = "L213"
  /\ cells' = [cells EXCEPT !["expression"] = comparison]
  /\ pc' = "L215"
  /\ UNCHANGED <<lastIndex, invoked, outcome, first>>

\* let statement = Parser.error("statement parser used before definition")
DeclareStatement ==
  /\ pc = "L215"
  /\ cells' = [cells EXCEPT !["statement"] =
                 error("statement parser used before definition")]
  /\ pc' = "L292"
  /\ UNCHANGED <<lastIndex, invoked, outcome, first>>

\* statement.parse = statementParser.parse
InstallStatement ==
  /\ pc = "L292"
  /\ cells' = [cells EXCEPT !["statement"] = statementParser]
  /\ pc' = "L295"
  /\ UNCHANGED <<lastIndex, invoked, outcome, first>>

\* let parser = ignored.and(zeroOrMore(statement)).map(...)
DefineParser ==
  /\ pc = "L295"
  /\ pc' = "L480"
  /\ UNCHANGED <<cells, lastIndex, invoked, outcome, first>>

Result(r) == [kind |-> r.kind, value |-> r.value, index |-> r.index]

\* parser.parseStringToCompletion(source)
ParseProgram(program) ==
  /\ pc = "L480"
  /\ LET r == ParseStringToCompletion(parser, program.text, lastIndex, cells)
     IN  /\ outcome' = Result(r)
         /\ lastIndex' = r.li
  /\ invoked' = [op |-> "parseStringToCompletion", parser |-> "parser",
                 string |-> program.text, expected |-> program.expected]
  /\ pc' = "done"
  /\ UNCHANGED <<cells, first>>

\* cell.parse(new Source(string, 0)) between the cell's declaration and the
\* assignment of its parse field
EarlyUse(name, string) ==
  /\ \/ pc = "L213" /\ name = "expression"
     \/ pc = "L292" /\ name = "statement"
  /\ LET r == Parse(Cell(name), string, 0, lastIndex, Context(cells))
     IN  /\ outcome' = Result(r)
         /\ lastIndex' = r.li
  /\ invoked' = [op |-> "parse", parser |-> name, string |-> string,
                 expected |-> NullV]
  /\ pc' = "aborted"
  /\ UNCHANGED <<cells, first>>

Next ==
  \/ DeclareExpression
  \/ InstallExpression
  \/ DeclareStatement
  \/ InstallStatement
  \/ DefineParser
  \/ \E program \in Programs : ParseProgram(program)
  \/ \E name \in Cells, string \in Concats(1) : EarlyUse(name, string)

Spec == Init /\ [][Next]_vars

(***************************************************************************)
(* Properties of the program                                               *)
(***************************************************************************)
TopLevelParse ==
  invoked.op = "parseStringToCompletion" /\ invoked.parser = "parser"

\* what parser.parse(new Source(string, 0)) gives for the input of the call
Underlying == Parse(parser, invoked.string, 0, lastIndex, Context(cells))

\* C1: when the top-level parser stops before the end of the input,
\* parseStringToCompletion throws 'Parse error at index N', N being the offset
\* of the first unconsumed character; a Block is returned only when the whole
\* input was consumed.
C1_TrailingInputIsAnError ==
  TopLevelParse =>
    /\ (Underlying.kind = "ok" /\ Underlying.index # Len(invoked.string)) =>
         /\ outcome.kind = "throw"
         /\ outcome.value = ErrorAtIndex(Underlying.index)
    /\ outcome.kind = "ok" =>
         /\ outcome.value.k = "Block"
         /\ Underlying.index = Len(invoked.string)

\* "x = 1; )" is refused at the stray parenthesis
C1_Witness ==
  /\ TopLevelParse
  /\ invoked.string = <<"x", " ", "=", " ", "1", ";", " ", ")">>
  /\ outcome.kind = "throw"
  /\ outcome.value = ErrorAtIndex(7)

\* C2: an input on which the top-level parser makes no progress at all is
\* refused with the 'could not parse anything at all' error, not with
\* 'Parse error at index N'.
C2_NoProgressIsTheNothingAtAllError ==
  (TopLevelParse /\ Len(invoked.string) > 0 /\ Underlying.index = 0) =>
    /\ outcome.kind = "throw"
    /\ outcome.value = NothingAtAll

ReservedWords ==
  {<<"f", "u", "n", "c", "t", "i", "o", "n">>, <<"i", "f">>,
   <<"w", "h", "i", "l", "e">>, <<"e", "l", "s", "e">>,
   <<"r", "e", "t", "u", "r", "n">>, <<"v", "a", "r">>}

\* the words the ID token contributed to a tree
RECURSIVE Names(_)
Names(node) ==
  CASE node.k = "Number" -> {}
    [] node.k = "Id" -> {node.value}
    [] node.k \in {"Not", "Return"} -> Names(node.term)
    [] node.k \in {"Equal", "NotEqual", "Add", "Subtract", "Multiply", "Divide"} ->
         Names(node.left) \cup Names(node.right)
    [] node.k = "Call" ->
         {node.callee} \cup UNION {Names(node.args[i]) : i \in 1..Len(node.args)}
    [] node.k = "Block" ->
         UNION {Names(node.statements[i]) : i \in 1..Len(node.statements)}
    [] node.k = "If" ->
         Names(node.conditional) \cup Names(node.consequence)
           \cup Names(node.alternative)
    [] node.k = "Function" ->
         {node.name} \cup {node.parameters[i] : i \in 1..Len(node.parameters)}
           \cup Names(node.body)
    [] node.k \in {"Var", "Assign"} -> {node.name} \cup Names(node.value)
    [] node.k = "While" -> Names(node.conditional) \cup Names(node.body)

\* C3: no name in a parsed tree is a reserved word, and a word that only
\* starts with a reserved word ("iffy") is an identifier.
C3_IdentifiersAreNeverReservedWords ==
  (TopLevelParse /\ outcome.kind = "ok") =>
    /\ Names(outcome.value) \cap ReservedWords = {}
    /\ invoked.string = <<"i", "f", "f", "y", ";">> =>
         outcome.value = Block(<<Id(<<"i", "f", "f", "y">>)>>)

\* C4: a valid program, with whitespace and comments around it, is consumed
\* to its end and yields the Block of its statements in written order.
C4_ValidProgramsYieldTheirStatements ==
  (TopLevelParse /\ invoked.expected # NullV) =>
    /\ outcome.kind = "ok"
    /\ outcome.index = Len(invoked.string)
    /\ Equals(outcome.value, invoked.expected)

BinaryLevel(k) ==
  CASE k \in {"Equal", "NotEqual"} -> 1
    [] k \in {"Add", "Subtract"} -> 2
    [] k \in {"Multiply", "Divide"} -> 3
    [] OTHER -> 4

\* no operator has, as its right operand, an operator that binds no tighter
RECURSIVE LeftNested(_)
LeftNested(node) ==
  CASE node.k \in {"Number", "Id"} -> TRUE
    [] node.k \in {"Not", "Return"} -> LeftNested(node.term)
    [] node.k \in {"Equal", "NotEqual", "Add", "Subtract", "Multiply", "Divide"} ->
         /\ BinaryLevel(node.right.k) > BinaryLevel(node.k)
         /\ LeftNested(node.left)
         /\ LeftNested(node.right)
    [] node.k = "Call" -> \A i \in 1..Len(node.args) : LeftNested(node.args[i])
    [] node.k = "Block" ->
         \A i \in 1..Len(node.statements) : LeftNested(node.statements[i])
    [] node.k = "If" ->
         /\ LeftNested(node.conditional)
         /\ LeftNested(node.consequence)
         /\ LeftNested(node.alternative)
    [] node.k = "Function" -> LeftNested(node.body)
    [] node.k \in {"Var", "Assign"} -> LeftNested(node.value)
    [] node.k = "While" -> LeftNested(node.conditional) /\ LeftNested(node.body)

Chars(string) == {string[i] : i \in 1..Len(string)}

\* C6: infix folds term (operator term)* to the left: "8 o1 4 o2 2" with
\* operators of one level is o2(o1(8, 4), 2), and without parentheses in the
\* input no operator of a tree has an operator of its own or a looser level
\* as its right operand.
C6_InfixIsLeftAssociative ==
  (TopLevelParse /\ outcome.kind = "ok") =>
    /\ "(" \notin Chars(invoked.string) => LeftNested(outcome.value)
    /\ [text |-> invoked.string, expected |-> invoked.expected] \in Chains =>
         outcome.value = invoked.expected

\* "8 - 4 - 2;" is Subtract(Subtract(8, 4), 2)
C6_Witness ==
  /\ TopLevelParse
  /\ invoked.string = <<"8", " ", "-", " ", "4", " ", "-", " ", "2", ";">>
  /\ outcome.kind = "ok"
  /\ outcome.value =
       Block(<<Subtract(Subtract(Number(8), Number(4)), Number(2))>>)

UsedBeforeDefinition(name) ==
  IF name = "expression"
  THEN Error("expression parser used before definition")
  ELSE Error("statement parser used before definition")

\* C9: both cells hold their rule once the top-level parser exists, no parse
\* through it throws a 'used before definition' error, and a cell called
\* before its assignment throws that error instead of returning null.
C9_CellsAreInstalledBeforeUse ==
  /\ pc \in {"L480", "done"} => cells = Installed
  /\ TopLevelParse =>
       ~(outcome.kind = "throw"
         /\ outcome.value \in {UsedBeforeDefinition(name) : name \in Cells})
  /\ (invoked.op = "parse" /\ pc = "aborted") =>
       /\ outcome.kind = "throw"
       /\ outcome.value = UsedBeforeDefinition(invoked.parser)

\* the integration test's program went through both cells
C9_Witness ==
  /\ TopLevelParse
  /\ invoked.string = FactorialSource
  /\ outcome.kind = "ok"
  /\ Equals(outcome.value, FactorialExpected)

\* C10: no call of the top-level parser runs for ever: no zeroOrMore item
\* succeeds without consuming a character and no cell is entered again at the
\* index it is already being parsed at.
C10_ParsingTerminates ==
  TopLevelParse => outcome.kind # "diverge"

\* nested parentheses, calls and blocks, and repeated statements, terminate
C10_Witness ==
  /\ TopLevelParse
  /\ invoked.string =
       <<"(", "(", "x", ")", ")", ";", "f", "(", "g", "(", ")", ",", "1", ")",
         ";", "{", "{", "}", "}">>
  /\ outcome.kind = "ok"
  /\ Len(outcome.value.statements) = 3

(***************************************************************************)
(* equals on its own: result.equals(expected) for two trees built from the *)
(* node classes.                                                           *)
(***************************************************************************)
MaxSeq == 1

\* the sequences over S of length at most n
RECURSIVE SeqsUpTo(_, _)
SeqsUpTo(S, n) ==
  IF n = 0 THEN {<<>>}
  ELSE LET shorter == SeqsUpTo(S, n - 1)
       IN  shorter \cup {Append(q, x) : q \in shorter, x \in S}

Leaves == {Number(1), Number(2), Id(<<"a">>)}

NodeNames == {<<"a">>, <<"b">>}

BinaryClasses ==
  {"Equal", "NotEqual", "Add", "Subtract", "Multiply", "Divide"}

\* every class over the leaves
Shallow ==
  Leaves
    \cup {Id(<<"b">>)}
    \cup {Not(x) : x \in Leaves}
    \cup {New(ClassV(c), x, y) : c \in BinaryClasses, x \in Leaves, y \in Leaves}
    \cup {Call(n, q) : n \in NodeNames, q \in SeqsUpTo(Leaves, MaxSeq)}
    \cup {Return(x) : x \in Leaves}
    \cup {Block(q) : q \in SeqsUpTo(Leaves, MaxSeq)}
    \cup {If(x, y, z) : x \in Leaves, y \in Leaves, z \in Leaves}
    \cup {Function(n, q, x) :
            n \in NodeNames, q \in SeqsUpTo(NodeNames, MaxSeq), x \in Leaves}
    \cup {Var(n, x) : n \in NodeNames, x \in Leaves}
    \cup {Assign(n, x) : n \in NodeNames, x \in Leaves}
    \cup {While(x, y) : x \in Leaves, y \in Leaves}

Inner ==
  {Multiply(Id(<<"a">>), Number(2)), Multiply(Number(2), Id(<<"a">>)),
   Multiply(Id(<<"a">>), Number(1)), Not(Number(1)), Block(<<>>),
   Call(<<"a">>, <<Number(1)>>)}

\* trees whose fields are trees with fields
Nested ==
  {Not(x) : x \in Inner}
    \cup {Block(<<x>>) : x \in Inner}
    \cup {FactorialExpected}

Nodes == Shallow \cup Nested

InitEquals ==
  /\ pc = "L482"
  /\ cells = Installed
  /\ lastIndex = [re \in RegExps |-> 0]
  /\ \E this \in Nodes, other \in Nodes :
       invoked = [op |-> "equals", this |-> this, other |-> other]
  /\ outcome = NoOutcome
  /\ first = NoOutcome

\* this.equals(other)
EqualsCall ==
  /\ pc = "L482"
  /\ outcome' = [kind |-> "ok", value |-> Equals(invoked.this, invoked.other)]
  /\ pc' = "done"
  /\ UNCHANGED <<cells, lastIndex, invoked, first>>

NextEquals == EqualsCall

SpecEquals == InitEquals /\ [][NextEquals]_vars

\* C8: x.equals(y) is true exactly when x and y are the same variant with
\* all fields recursively equal, sequences compared by length and element by
\* element; so it is symmetric, true of a tree and itself, and false
\* when operands are swapped or a literal differs.
C8_EqualsIsStructural ==
  (invoked.op = "equals" /\ pc = "done") =>
    /\ outcome.value = (invoked.this = invoked.other)
    /\ outcome.value = Equals(invoked.other, invoked.this)

\* Multiply(Id("a"), Number(2)) does not equal the node with swapped operands
C8_Witness ==
  /\ pc = "done"
  /\ invoked.op = "equals"
  /\ invoked.this = Multiply(Id(<<"a">>), Number(2))
  /\ invoked.other = Multiply(Number(2), Id(<<"a">>))
  /\ outcome.value = FALSE

(***************************************************************************)
(* or on its own: a.or(b).parse(new Source(string, index)), as in the test *)
(* of lines 118-122, after earlier matches left any lastIndex behind.      *)
(***************************************************************************)
MaxWords == 2

\* every concatenation of at most n of the words
RECURSIVE WordsUpTo(_, _)
WordsUpTo(words, n) ==
  IF n = 0 THEN {<<>>}
  ELSE LET shorter == WordsUpTo(words, n - 1)
       IN  shorter \cup {x \o w : x \in shorter, w \in words}

OrStrings == WordsUpTo({<<"h", "a", "i">>, <<"b", "y", "e">>}, MaxWords)

\* a parser and the regular expression objects it runs
Operand(p, uses) == [parser |-> p, uses |-> uses]

OrOperands ==
  {Operand(regexp("bye"), {"bye"}),
   Operand(regexp("hai"), {"hai"}),
   Operand(regexp("ID"), {"ID"}),
   Operand(and(regexp("hai"), regexp("bye")), {"hai", "bye"}),
   Operand(constant(<<>>), {})}

\* a lastIndex no match on these strings ends at: the trace of an earlier
\* match on a longer string
Stale == 7

OrLastIndexes ==
  {[re \in RegExps |-> IF re \in stale THEN Stale ELSE 0] :
     stale \in SUBSET {"bye", "hai", "ID"}}

\* a result without the lastIndex map; a matched value is boxed so that it
\* compares with null
Boxed(r) ==
  [kind |-> r.kind,
   value |-> IF r.kind = "ok" THEN [k |-> "value", v |-> r.value] ELSE r.value,
   index |-> r.index]

InitOr ==
  /\ pc = "L120"
  /\ cells = Installed
  /\ lastIndex \in OrLastIndexes
  /\ \E a \in OrOperands, b \in OrOperands, string \in OrStrings :
       \E index \in 0..Len(string) :
         invoked = [op |-> "or", this |-> a, parser |-> b,
                    string |-> string, index |-> index]
  /\ outcome = NoOutcome
  /\ first = NoOutcome

\* this.or(parser).parse(new Source(string, index))
OrCall ==
  /\ pc = "L120"
  /\ LET r == Parse(or(invoked.this.parser, invoked.parser.parser),
                    invoked.string, invoked.index, lastIndex, Context(cells))
     IN  /\ outcome' = Boxed(r)
         /\ lastIndex' = r.li
  /\ pc' = "done"
  /\ UNCHANGED <<cells, invoked, first>>

NextOr == OrCall

SpecOr == InitOr /\ [][NextOr]_vars

\* a alone and b alone at the Source of the call
AloneThis ==
  Parse(invoked.this.parser, invoked.string, invoked.index, lastIndex,
        Context(cells))

AloneOther ==
  Parse(invoked.parser.parser, invoked.string, invoked.index, lastIndex,
        Context(cells))

\* C5: a.or(b) at a position gives a's result when a succeeds there, and
\* then b is not run (no regular expression that only b uses is touched);
\* when a fails it gives the result of b run at that same position.
C5_OrIsPrioritizedChoice ==
  [][(pc = "L120" /\ pc' = "done") =>
       IF AloneThis.kind = "ok"
       THEN /\ outcome' = Boxed(AloneThis)
            /\ \A re \in invoked.parser.uses \ invoked.this.uses :
                 lastIndex'[re] = lastIndex[re]
       ELSE outcome' = Boxed(AloneOther)]_vars

\* on "hai" both ID and /hai/ match; ID.or(/hai/) gave ID's result and left
\* /hai/ as it was
C5_Witness ==
  /\ pc = "done"
  /\ invoked.op = "or"
  /\ invoked.this.parser = regexp("ID")
  /\ invoked.parser.parser = regexp("hai")
  /\ invoked.string = <<"h", "a", "i">>
  /\ invoked.index = 0
  /\ outcome.kind = "ok"
  /\ lastIndex["hai"] = Stale

(***************************************************************************)
(* Source.match on its own: one Source and one regular expression, matched *)
(* again and again, with matches of the same regular expression on other   *)
(* Sources of the same string in between (test of lines 32-40).            *)
(***************************************************************************)
MaxPieces == 2

MatchStrings ==
  WordsUpTo({<<"l", "e", "t">>, <<" ">>}, MaxPieces)
    \cup {<<" ", " ", "l", "e", "t">>}

MatchRegExps == {"let", "whitespace", "ID"}

InitMatch ==
  /\ pc = "L34"
  /\ cells = Installed
  /\ lastIndex = [re \in RegExps |-> 0]
  /\ \E string \in MatchStrings, re \in MatchRegExps :
       \E index \in 0..Len(string) :
         invoked = [op |-> "match", string |-> string, index |-> index,
                    regexp |-> re, on |-> "none"]
  /\ outcome = NoOutcome
  /\ first = NoOutcome

\* s.match(regexp) on the Source s under test
MatchSource ==
  /\ pc = "L34"
  /\ LET r == SourceMatch(invoked.string, invoked.index, invoked.regexp,
                          lastIndex)
     IN  /\ outcome' = Boxed(r)
         /\ lastIndex' = r.li
         /\ first' = IF first = NoOutcome THEN Boxed(r) ELSE first
  /\ invoked' = [invoked EXCEPT !.on = "source"]
  /\ UNCHANGED <<pc, cells>>

\* new Source(s.string, index).match(regexp) with the same regexp object
MatchElsewhere(index) ==
  /\ pc = "L34"
  /\ LET r == SourceMatch(invoked.string, index, invoked.regexp, lastIndex)
     IN  /\ outcome' = Boxed(r)
         /\ lastIndex' = r.li
  /\ invoked' = [invoked EXCEPT !.on = "other"]
  /\ UNCHANGED <<pc, cells, first>>

NextMatch ==
  \/ MatchSource
  \/ \E index \in 0..Len(invoked.string) : MatchElsewhere(index)

SpecMatch == InitMatch /\ [][NextMatch]_vars

\* C7: every s.match(r) on one Source gives what the first one gave, the
\* same value and resulting index or null each time, whatever was matched
\* with r in between; the resulting index is s.index plus the length of the
\* value.
C7_MatchIsIdempotent ==
  (invoked.op = "match" /\ invoked.on = "source") =>
    /\ outcome = first
    /\ outcome.kind = "ok" =>
         outcome.index = invoked.index + Len(outcome.value.v)

\* Source("  let", 2).match(/let/y) gave "let" and index 5, as its first
\* match did
C7_Witness ==
  /\ invoked.op = "match"
  /\ invoked.on = "source"
  /\ invoked.string = <<" ", " ", "l", "e", "t">>
  /\ invoked.index = 2
  /\ invoked.regexp = "let"
  /\ first.kind = "ok"
  /\ outcome.value.v = <<"l", "e", "t">>
  /\ outcome.index = 5

(***************************************************************************)
(* Block comments (line 135).                                              *)
(***************************************************************************)
Min(S) == CHOOSE m \in S : \A n \in S : m <= n

\* the JS indices of the input at which a closed block comment opens
BlockCommentOpenings(s) ==
  {i \in 0..(Len(s) - 1) :
     HasLit(s, i, <<"/", "*">>) /\ StarSlashAt(s, i + 2) # {}}

\* C11: a block comment extends from its opening '/*' to the first following
\* '*/' and no further: the comments parser, run where a block comment opens,
\* stops right after the nearest '*/', so that program text between two
\* separate block comments is left to be parsed as ordinary tokens.
C11_BlockCommentEndsAtTheFirstStarSlash ==
  TopLevelParse =>
    \A i \in BlockCommentOpenings(invoked.string) :
      LET r == Parse(comments, invoked.string, i, lastIndex, Context(cells))
      IN  /\ r.kind = "ok"
          /\ r.index = Min(StarSlashAt(invoked.string, i + 2)) + 2

=============================================================================
